---- MODULE Spec2Model ----
(***************************************************************************)
(* A model of fdfs_client: the ConnectionPool of connection.py and the     *)
(* Fdfs_client facade of client.py.                                        *)
(*                                                                         *)
(* Connections are objects, named by integers.  Object 0 is a Connection   *)
(* that a caller constructed itself (it never came from the pool); objects *)
(* 1..MaxObjs are the instances make_conn constructs, in order.            *)
(***************************************************************************)
EXTENDS Integers, Sequences, FiniteSets, TLC

\* ------------------------------------------------------------------ bounds
\* largest max_conn argument given to ConnectionPool(...); 0 stands for None
MaxConnArg == 2
\* number of Connection objects make_conn may construct in one behaviour
MaxObjs == 2
\* number of forks in one behaviour (os.getpid() is 0 at first, then 1, ...)
MaxForks == 1
\* the transport fails 0..MaxFails times in a row before it would succeed
MaxFails == 3
\* number of threads that call the pool concurrently
NumThreads == 2
\* number of storage servers a tracker may name
NumServers == 2
\* largest offset and largest byte count a caller passes
MaxOffset == 2
MaxBytes == 3
\* largest status a storage server answers set-metadata with
MaxStatus == 2
\* largest number of trackers the configuration names in tracker_server
MaxTrackers == 1
\* largest bytes_size given to tcp_recv_response; the peer sends up to one more
MaxSize == 3
\* largest buffer_size given to tcp_recv_response
MaxBuffer == 2

\* ------------------------------------------------------------- connection.py
VARIABLES
    pid,              \* ConnectionPool.pid
    max_conn,         \* ConnectionPool.max_conn
    _conns_created,   \* ConnectionPool._conns_created
    _conns_available, \* ConnectionPool._conns_available, a list
    _conns_inuse,     \* ConnectionPool._conns_inuse, a set
    sock,             \* Connection.sock of every object: TRUE = an open socket
    conn_pid,         \* Connection.pid of every object
    next_obj,         \* the next object make_conn constructs
    getpid,           \* os.getpid() of the running process
    removed,          \* history: the connections remove() took out of the pool
    last              \* the last pool call: its arguments and its result

poolvars == <<pid, max_conn, _conns_created, _conns_available, _conns_inuse,
              sock, conn_pid, next_obj, getpid, removed, last>>

\* the threads that call the pool with no lock between them
VARIABLES
    pc,               \* where each thread stands in its pool call
    conn_local,       \* each thread's local `conn` / `conn_instance`
    num_try_local,    \* each thread's local `num_try` in make_conn
    created_read,     \* the value of _conns_created a thread read for += / -=
    held              \* the connections a thread got and has not given back

threadvars == <<pc, conn_local, num_try_local, created_read, held>>

\* client.py: one Fdfs_client, whose tracker_pool is the pool above
VARIABLES
    storages,         \* Fdfs_client.storages: the endpoints it has a client for
    constructed,      \* history: the endpoints a Storage_client was made for
    call,             \* the last Fdfs_client call: arguments, events, outcome
    client            \* Fdfs_client(conf_path): the configuration and the result

clientvars == <<storages, constructed, call, client>>

\* one call of tcp_recv_response, tcp_send_data or Connection.connect
VARIABLES
    io                \* the call: its arguments, its locals, the peer, the result

vars == <<poolvars, threadvars, clientvars, io>>

Objs == 0..MaxObjs
Foreign == 0
\* Python's None where a connection is expected
None == MaxObjs + 1

Range(s) == {s[i] : i \in 1..Len(s)}

\* the orders in which a Python set may be iterated
Orders(S) == {o \in [1..Cardinality(S) -> S] : Range(o) = S}

\* the pool and its connections as one value
State == [pid |-> pid, max_conn |-> max_conn, created |-> _conns_created,
          available |-> _conns_available, inuse |-> _conns_inuse,
          sock |-> sock, conn_pid |-> conn_pid, next_obj |-> next_obj]

\* `max_conn or 2 ** 31`.  2 ** 31 is one more than the largest integer of the
\* model checker, which stands for it here: _conns_created stays far below
\* both, so every comparison with it has the same outcome.
DefaultMaxConn == 2147483647

\* ConnectionPool.__init__ on an existing pool object
pool_init(st, cur, max_conn_arg) ==
    [st EXCEPT !.pid = cur,
               !.max_conn = IF max_conn_arg = 0 THEN DefaultMaxConn ELSE max_conn_arg,
               !.created = 0,
               !.available = <<>>,
               !.inuse = {}]

\* Connection.disconnect; close_fails: sock.close() raises socket.error
disconnect(st, conn, close_fails) ==
    IF ~st.sock[conn] THEN [st |-> st, raised |-> FALSE]
    ELSE IF close_fails THEN [st |-> st, raised |-> TRUE]
    ELSE [st |-> [st EXCEPT !.sock[conn] = FALSE], raised |-> FALSE]

\* the loop of destroy over chain(_conns_inuse, _conns_available)
RECURSIVE destroy_loop(_, _, _)
destroy_loop(st, all_conns, bad) ==
    IF all_conns = <<>> THEN [st |-> st, raised |-> FALSE]
    ELSE LET r == disconnect(st, Head(all_conns), Head(all_conns) = bad)
         IN  IF r.raised THEN r ELSE destroy_loop(r.st, Tail(all_conns), bad)

\* a destroy that forgets the connections in use
destroy_idle_only(st, inuse_order, bad) ==
    destroy_loop(st, st.available, bad)

\* ConnectionPool.destroy; inuse_order: the order the set is iterated in,
\* bad: the connection whose close() raises (None: no close raises)
destroy(st, inuse_order, bad) ==
    destroy_loop(st, inuse_order \o st.available, bad)

\* a _check_pid that re-initialises the pool without closing its connections
_check_pid_no_destroy(st, cur, inuse_order, bad) ==
    IF st.pid # cur
    THEN [st |-> pool_init(st, cur, st.max_conn), raised |-> FALSE,
          reinit |-> TRUE]
    ELSE [st |-> st, raised |-> FALSE, reinit |-> FALSE]

\* ConnectionPool._check_pid
_check_pid(st, cur, inuse_order, bad) ==
    IF st.pid # cur
    THEN LET d == destroy(st, inuse_order, bad)
         IN  IF d.raised
             THEN [st |-> d.st, raised |-> TRUE, reinit |-> FALSE]
             ELSE [st |-> pool_init(d.st, cur, d.st.max_conn),
                   raised |-> FALSE, reinit |-> TRUE]
    ELSE [st |-> st, raised |-> FALSE, reinit |-> FALSE]

\* the result of a pool call: the state it leaves, how it ended, the connection
\* it returned, the connects it attempted, whether _check_pid re-initialised
\* the pool, and the transport failures make_conn's loop was given
Result(st, outcome, conn, attempts, reinit, fails) ==
    [st |-> st, outcome |-> outcome, conn |-> conn, attempts |-> attempts,
     reinit |-> reinit, fails |-> fails]

\* the attempt-th transport connect succeeds
connect_ok(attempt, fails) == attempt > fails

num_try == 3

\* the while loop of make_conn; n: num_try, done: the connects attempted
RECURSIVE make_conn_loop(_, _, _, _, _)
make_conn_loop(st, cur, n, done, fails) ==
    IF n > 0
    THEN IF connect_ok(done + 1, fails)
         THEN [st |-> [st EXCEPT !.sock[st.next_obj] = TRUE,
                                 !.conn_pid[st.next_obj] = cur,
                                 !.created = st.created + 1,
                                 !.next_obj = st.next_obj + 1],
               outcome |-> "ok", conn |-> st.next_obj, attempts |-> done + 1]
         ELSE make_conn_loop(st, cur, n - 1, done + 1, fails)
    ELSE [st |-> st, outcome |-> "ConnectionError", conn |-> None,
          attempts |-> done]

\* a make_conn that gives up after one retry
make_conn_two_tries(st, cur, fails) ==
    IF st.created >= st.max_conn
    THEN [st |-> st, outcome |-> "ConnectionError", conn |-> None, attempts |-> 0]
    ELSE make_conn_loop(st, cur, num_try - 1, 0, fails)

\* a make_conn whose capacity check is off by one
make_conn_off_by_one(st, cur, fails) ==
    IF st.created > st.max_conn
    THEN [st |-> st, outcome |-> "ConnectionError", conn |-> None, attempts |-> 0]
    ELSE make_conn_loop(st, cur, num_try, 0, fails)

\* ConnectionPool.make_conn
make_conn(st, cur, fails) ==
    IF st.created >= st.max_conn
    THEN [st |-> st, outcome |-> "ConnectionError", conn |-> None, attempts |-> 0]
    ELSE make_conn_loop(st, cur, num_try, 0, fails)

\* a get_connection that reads the last idle connection and leaves it in the list
get_connection_no_pop(st, cur, fails, reinit) ==
    IF st.available # <<>>
    THEN LET conn == st.available[Len(st.available)]
         IN  Result([st EXCEPT !.inuse = st.inuse \cup {conn}],
                    "ok", conn, 0, reinit, 0)
    ELSE LET m == make_conn(st, cur, fails)
         IN  IF m.outcome = "ok"
             THEN Result([m.st EXCEPT !.inuse = m.st.inuse \cup {m.conn}],
                         "ok", m.conn, m.attempts, reinit, fails)
             ELSE Result(m.st, m.outcome, None, m.attempts, reinit,
                         IF st.created >= st.max_conn THEN 0 ELSE fails)

\* the rest of get_connection after _check_pid
get_connection_body(st, cur, fails, reinit) ==
    IF st.available # <<>>
    THEN LET conn == st.available[Len(st.available)]
         IN  Result([st EXCEPT !.available = SubSeq(st.available, 1, Len(st.available) - 1),
                               !.inuse = st.inuse \cup {conn}],
                    "ok", conn, 0, reinit, 0)
    ELSE LET m == make_conn(st, cur, fails)
         IN  IF m.outcome = "ok"
             THEN Result([m.st EXCEPT !.inuse = m.st.inuse \cup {m.conn}],
                         "ok", m.conn, m.attempts, reinit, fails)
             ELSE Result(m.st, m.outcome, None, m.attempts, reinit,
                         IF st.created >= st.max_conn THEN 0 ELSE fails)

\* ConnectionPool.get_connection
get_connection(st, cur, inuse_order, bad, fails) ==
    LET c == _check_pid(st, cur, inuse_order, bad)
    IN  IF c.raised
        THEN Result(c.st, "ConnectionError", None, 0, FALSE, 0)
        ELSE get_connection_body(c.st, cur, fails, c.reinit)

\* list.remove(x): the first occurrence is deleted
RECURSIVE list_remove(_, _)
list_remove(s, x) ==
    IF s = <<>> THEN <<>>
    ELSE IF Head(s) = x THEN Tail(s)
    ELSE <<Head(s)>> \o list_remove(Tail(s), x)

\* a remove that leaves the counter alone
remove_no_decrement(st, conn) ==
    LET s1 == IF conn \in st.inuse
              THEN [st EXCEPT !.inuse = st.inuse \ {conn}]
              ELSE st
    IN  IF conn \in Range(s1.available)
        THEN [s1 EXCEPT !.available = list_remove(s1.available, conn)]
        ELSE s1

\* ConnectionPool.remove
remove(st, conn) ==
    LET s1 == IF conn \in st.inuse
              THEN [st EXCEPT !.inuse = st.inuse \ {conn},
                              !.created = st.created - 1]
              ELSE st
    IN  IF conn \in Range(s1.available)
        THEN [s1 EXCEPT !.available = list_remove(s1.available, conn),
                        !.created = s1.created - 1]
        ELSE s1

\* a release that takes conn out of the set without asking that it is there
release_discard(st, conn, reinit) ==
    IF st.conn_pid[conn] = st.pid
    THEN Result([st EXCEPT !.inuse = st.inuse \ {conn},
                           !.available = Append(st.available, conn)],
                "ok", conn, 0, reinit, 0)
    ELSE Result(st, "ok", conn, 0, reinit, 0)

\* a release that does not compare conn.pid with the pool's pid
release_no_pid_check(st, conn, reinit) ==
    IF conn \in st.inuse
    THEN Result([st EXCEPT !.inuse = st.inuse \ {conn},
                           !.available = Append(st.available, conn)],
                "ok", conn, 0, reinit, 0)
    ELSE Result(st, "KeyError", conn, 0, reinit, 0)

\* the rest of release after _check_pid
release_body(st, conn, reinit) ==
    IF st.conn_pid[conn] = st.pid
    THEN IF conn \in st.inuse
         THEN Result([st EXCEPT !.inuse = st.inuse \ {conn},
                                !.available = Append(st.available, conn)],
                     "ok", conn, 0, reinit, 0)
         ELSE Result(st, "KeyError", conn, 0, reinit, 0)
    ELSE Result(st, "ok", conn, 0, reinit, 0)

\* ConnectionPool.release
release(st, cur, conn, inuse_order, bad) ==
    LET c == _check_pid(st, cur, inuse_order, bad)
    IN  IF c.raised
        THEN Result(c.st, "ConnectionError", conn, 0, FALSE, 0)
        ELSE release_body(c.st, conn, c.reinit)

\* ---------------------------------------------------------------- actions
\* the state variables take the fields of st; `last` records the call
Becomes(st, rec) ==
    /\ pid' = st.pid
    /\ max_conn' = st.max_conn
    /\ _conns_created' = st.created
    /\ _conns_available' = st.available
    /\ _conns_inuse' = st.inuse
    /\ sock' = st.sock
    /\ conn_pid' = st.conn_pid
    /\ next_obj' = st.next_obj
    /\ last' = rec
    /\ UNCHANGED <<threadvars, clientvars, io>>

\* what `last` holds about a call
Call(op, arg, r) ==
    [op |-> op, arg |-> arg, outcome |-> r.outcome, conn |-> r.conn,
     attempts |-> r.attempts, reinit |-> r.reinit, fails |-> r.fails]

NoCall ==
    [op |-> "__init__", arg |-> None, outcome |-> "ok", conn |-> None,
     attempts |-> 0, reinit |-> FALSE, fails |-> 0]

\* the connections whose close() may raise: those with an open socket
Bad == {None} \cup {c \in Objs : sock[c]}

\* what destroy is given: the order _conns_inuse is iterated in and the
\* connection whose close() raises.  A call that does not reach destroy reads
\* neither.
DestroyInputs(reached) ==
    IF reached THEN Orders(_conns_inuse) \X Bad ELSE {<<(<<>>), None>>}

PoolInit ==
    /\ getpid = 0
    /\ pid = 0
    /\ \E max_conn_arg \in 0..MaxConnArg :
          max_conn = IF max_conn_arg = 0 THEN DefaultMaxConn ELSE max_conn_arg
    /\ _conns_created = 0
    /\ _conns_available = <<>>
    /\ _conns_inuse = {}
    /\ sock = [c \in Objs |-> FALSE]
    /\ conn_pid = [c \in Objs |-> 0]
    /\ next_obj = 1
    /\ removed = {}
    /\ last = NoCall

GetConnection ==
    \E d \in DestroyInputs(pid # getpid), fails \in 0..MaxFails :
        LET r == get_connection(State, getpid, d[1], d[2], fails)
        IN  /\ r.st.next_obj <= MaxObjs + 1
            /\ Becomes(r.st, Call("get_connection", None, r))
            /\ UNCHANGED <<getpid, removed>>

Release ==
    \E conn \in 0..(next_obj - 1), d \in DestroyInputs(pid # getpid) :
        LET r == release(State, getpid, conn, d[1], d[2])
        IN  /\ Becomes(r.st, Call("release", conn, r))
            /\ UNCHANGED <<getpid, removed>>

Remove ==
    \E conn \in 0..(next_obj - 1) :
        LET st == remove(State, conn)
            r == Result(st, "ok", conn, 0, FALSE, 0)
        IN  /\ Becomes(st, Call("remove", conn, r))
            /\ removed' = IF conn \in _conns_inuse \cup Range(_conns_available)
                          THEN removed \cup {conn} ELSE removed
            /\ UNCHANGED getpid

Destroy ==
    \E i \in DestroyInputs(TRUE) :
        LET d == destroy(State, i[1], i[2])
            r == Result(d.st, IF d.raised THEN "ConnectionError" ELSE "ok",
                        None, 0, FALSE, 0)
        IN  /\ Becomes(d.st, Call("destroy", None, r))
            /\ UNCHANGED <<getpid, removed>>

\* os.fork(): the model follows the child, whose memory is a copy
Fork ==
    /\ getpid < MaxForks
    /\ getpid' = getpid + 1
    /\ last' = [NoCall EXCEPT !.op = "fork"]
    /\ UNCHANGED <<pid, max_conn, _conns_created, _conns_available, _conns_inuse,
                   sock, conn_pid, next_obj, removed>>
    /\ UNCHANGED <<threadvars, clientvars, io>>

PoolNext == GetConnection \/ Release \/ Remove \/ Destroy \/ Fork

Threads == 1..NumThreads

ThreadInit ==
    /\ pc = [t \in Threads |-> "idle"]
    /\ conn_local = [t \in Threads |-> None]
    /\ num_try_local = [t \in Threads |-> 0]
    /\ created_read = [t \in Threads |-> 0]
    /\ held = [t \in Threads |-> {}]

\* what cf.get("__config__", "tracker_server") gives, as the list of the
\* trackers it names (tracker i is host i, port i); <<>> is the empty string
TrackerServers ==
    UNION {[1..n -> 1..MaxTrackers] : n \in 0..MaxTrackers}

\* a pool object before ConnectionPool.__init__ ran on it: there is no pool
Unconstructed ==
    [pid |-> -1, max_conn |-> 0, created |-> 0, available |-> <<>>,
     inuse |-> {}, sock |-> [c \in Objs |-> FALSE],
     conn_pid |-> [c \in Objs |-> 0], next_obj |-> 1]

\* a get_tracker_conf that accepts an empty tracker_server
get_tracker_conf_unchecked(tracker_server) ==
    [outcome |-> "ok",
     tracker |-> [host_tuple |-> Range(tracker_server), name |-> "Tracker Pool"]]

\* get_tracker_conf, from the tracker_server it reads
get_tracker_conf(tracker_server) ==
    IF tracker_server = <<>>
    THEN [outcome |-> "ConfigError", tracker |-> <<>>]
    ELSE [outcome |-> "ok",
          tracker |-> [host_tuple |-> Range(tracker_server),
                       name |-> "Tracker Pool"]]

\* Fdfs_client.__init__ in process cur: the configuration is read, then
\* pool_class(**self.trackers) constructs the tracker pool, with no max_conn
Fdfs_client_init(tracker_server, cur) ==
    LET t == get_tracker_conf(tracker_server)
    IN  IF t.outcome # "ok"
        THEN [outcome |-> t.outcome, trackers |-> <<>>, pools |-> 0,
              tracker_pool |-> Unconstructed]
        ELSE [outcome |-> "ok", trackers |-> t.tracker, pools |-> 1,
              tracker_pool |-> pool_init(Unconstructed, cur, 0)]

\* what `client` holds about the construction
Constructed(tracker_server, c) ==
    [tracker_server |-> tracker_server, outcome |-> c.outcome,
     trackers |-> c.trackers, pools |-> c.pools]

\* Fdfs_client.__init__: no Storage_client yet
ClientInit ==
    /\ client = Constructed(<<1>>, Fdfs_client_init(<<1>>, 0))
    /\ storages = {}
    /\ constructed = {}
    /\ call = [op |-> "", args |-> <<>>, outcome |-> "", trace |-> <<>>,
               status |-> -1, code |-> -1]

\* no call of the socket functions is under way
NoIo ==
    [fn |-> "", pc |-> "", bytes_size |-> 0, buffer_size |-> 0,
     recv_type |-> "", peer_total |-> 0, peer_end |-> "", response |-> <<>>,
     total_size |-> 0, recvs |-> 0, sock |-> FALSE, err |-> 0,
     outcome |-> ""]

IoInit == io = NoIo

Init == PoolInit /\ ThreadInit /\ ClientInit /\ IoInit

Spec == Init /\ [][PoolNext]_vars

\* Fdfs_client(conf_path) with any configuration, then the calls on its
\* tracker pool: the pool variables are the pool the constructor made
InitConstruct ==
    /\ \E tracker_server \in TrackerServers :
          LET c == Fdfs_client_init(tracker_server, 0)
          IN  /\ client = Constructed(tracker_server, c)
              /\ pid = c.tracker_pool.pid
              /\ max_conn = c.tracker_pool.max_conn
              /\ _conns_created = c.tracker_pool.created
              /\ _conns_available = c.tracker_pool.available
              /\ _conns_inuse = c.tracker_pool.inuse
              /\ sock = c.tracker_pool.sock
              /\ conn_pid = c.tracker_pool.conn_pid
              /\ next_obj = c.tracker_pool.next_obj
    /\ getpid = 0
    /\ removed = {}
    /\ last = NoCall
    /\ storages = {}
    /\ constructed = {}
    /\ call = [op |-> "", args |-> <<>>, outcome |-> "", trace |-> <<>>,
               status |-> -1, code |-> -1]
    /\ ThreadInit
    /\ IoInit

\* a client that failed to construct has no pool to call
ConstructNext == client.outcome = "ok" /\ PoolNext

SpecConstruct == InitConstruct /\ [][ConstructNext]_vars

\* ------------------------------------------------- the pool under threads
\* Several threads of one process call get_connection, release and remove on
\* the one pool.  The code takes no lock, so an action here is one step of one
\* thread: one operation on the list or the set, one read or one write of
\* _conns_created, one connect.  No fork happens in this specification, so
\* _check_pid finds pid = os.getpid() and conn.pid = self.pid.

Goto(t, label) == pc' = [pc EXCEPT ![t] = label]

ThreadFrame ==
    UNCHANGED <<pid, max_conn, getpid, removed, last, clientvars, io>>

\* a thread at rest calls get_connection()
T_CallGet(t) ==
    /\ pc[t] = "idle"
    /\ Goto(t, "pop")
    /\ UNCHANGED <<_conns_created, _conns_available, _conns_inuse, sock,
                   conn_pid, next_obj, conn_local, num_try_local,
                   created_read, held>>
    /\ ThreadFrame

\* get_connection: conn = self._conns_available.pop(), or IndexError
T_Pop(t) ==
    /\ pc[t] = "pop"
    /\ IF _conns_available # <<>>
       THEN /\ conn_local' = [conn_local EXCEPT
                                 ![t] = _conns_available[Len(_conns_available)]]
            /\ _conns_available' =
                   SubSeq(_conns_available, 1, Len(_conns_available) - 1)
            /\ Goto(t, "add")
       ELSE /\ Goto(t, "check")
            /\ UNCHANGED <<conn_local, _conns_available>>
    /\ UNCHANGED <<_conns_created, _conns_inuse, sock, conn_pid, next_obj,
                   num_try_local, created_read, held>>
    /\ ThreadFrame

\* make_conn: the capacity check, then num_try = 3
T_Check(t) ==
    /\ pc[t] = "check"
    /\ IF _conns_created >= max_conn
       THEN Goto(t, "idle") /\ UNCHANGED num_try_local
       ELSE /\ Goto(t, "connect")
            /\ num_try_local' = [num_try_local EXCEPT ![t] = num_try]
    /\ UNCHANGED <<_conns_created, _conns_available, _conns_inuse, sock,
                   conn_pid, next_obj, conn_local, created_read, held>>
    /\ ThreadFrame

\* make_conn: one turn of the loop, conn_instance.connect() succeeds or fails
T_Connect(t) ==
    /\ pc[t] = "connect"
    /\ \E ok \in BOOLEAN :
          IF ok
          THEN /\ next_obj <= MaxObjs
               /\ conn_local' = [conn_local EXCEPT ![t] = next_obj]
               /\ sock' = [sock EXCEPT ![next_obj] = TRUE]
               /\ conn_pid' = [conn_pid EXCEPT ![next_obj] = getpid]
               /\ next_obj' = next_obj + 1
               /\ Goto(t, "read_inc")
               /\ UNCHANGED num_try_local
          ELSE /\ num_try_local' = [num_try_local EXCEPT ![t] = @ - 1]
               /\ Goto(t, IF num_try_local[t] - 1 > 0 THEN "connect" ELSE "idle")
               /\ UNCHANGED <<conn_local, sock, conn_pid, next_obj>>
    /\ UNCHANGED <<_conns_created, _conns_available, _conns_inuse,
                   created_read, held>>
    /\ ThreadFrame

\* the read of `self._conns_created += 1` and of `self._conns_created -= 1`
T_ReadCreated(t) ==
    /\ pc[t] \in {"read_inc", "read_dec_inuse", "read_dec_available"}
    /\ created_read' = [created_read EXCEPT ![t] = _conns_created]
    /\ Goto(t, CASE pc[t] = "read_inc" -> "write_inc"
                 [] pc[t] = "read_dec_inuse" -> "write_dec_inuse"
                 [] pc[t] = "read_dec_available" -> "write_dec_available")
    /\ UNCHANGED <<_conns_created, _conns_available, _conns_inuse, sock,
                   conn_pid, next_obj, conn_local, num_try_local, held>>
    /\ ThreadFrame

\* make_conn: the write of `self._conns_created += 1`
T_WriteInc(t) ==
    /\ pc[t] = "write_inc"
    /\ _conns_created' = created_read[t] + 1
    /\ Goto(t, "add")
    /\ UNCHANGED <<_conns_available, _conns_inuse, sock, conn_pid, next_obj,
                   conn_local, num_try_local, created_read, held>>
    /\ ThreadFrame

\* get_connection: self._conns_inuse.add(conn); return conn
T_Add(t) ==
    /\ pc[t] = "add"
    /\ _conns_inuse' = _conns_inuse \cup {conn_local[t]}
    /\ held' = [held EXCEPT ![t] = @ \cup {conn_local[t]}]
    /\ Goto(t, "idle")
    /\ UNCHANGED <<_conns_created, _conns_available, sock, conn_pid, next_obj,
                   conn_local, num_try_local, created_read>>
    /\ ThreadFrame

\* a thread at rest calls release(conn) with a connection it holds
T_CallRelease(t) ==
    /\ pc[t] = "idle"
    /\ \E conn \in held[t] : conn_local' = [conn_local EXCEPT ![t] = conn]
    /\ Goto(t, "release_remove")
    /\ UNCHANGED <<_conns_created, _conns_available, _conns_inuse, sock,
                   conn_pid, next_obj, num_try_local, created_read, held>>
    /\ ThreadFrame

\* release: self._conns_inuse.remove(conn), or KeyError
T_ReleaseRemove(t) ==
    /\ pc[t] = "release_remove"
    /\ IF conn_local[t] \in _conns_inuse
       THEN /\ _conns_inuse' = _conns_inuse \ {conn_local[t]}
            /\ Goto(t, "release_append")
       ELSE /\ Goto(t, "idle")
            /\ UNCHANGED _conns_inuse
    /\ UNCHANGED <<_conns_created, _conns_available, sock, conn_pid, next_obj,
                   conn_local, num_try_local, created_read, held>>
    /\ ThreadFrame

\* release: self._conns_available.append(conn)
T_ReleaseAppend(t) ==
    /\ pc[t] = "release_append"
    /\ _conns_available' = Append(_conns_available, conn_local[t])
    /\ held' = [held EXCEPT ![t] = @ \ {conn_local[t]}]
    /\ Goto(t, "idle")
    /\ UNCHANGED <<_conns_created, _conns_inuse, sock, conn_pid, next_obj,
                   conn_local, num_try_local, created_read>>
    /\ ThreadFrame

\* a thread at rest calls remove(conn) with a connection it holds or an idle one
T_CallRemove(t) ==
    /\ pc[t] = "idle"
    /\ \E conn \in held[t] \cup Range(_conns_available) :
          conn_local' = [conn_local EXCEPT ![t] = conn]
    /\ Goto(t, "test_inuse")
    /\ UNCHANGED <<_conns_created, _conns_available, _conns_inuse, sock,
                   conn_pid, next_obj, num_try_local, created_read, held>>
    /\ ThreadFrame

\* remove: if conn in self._conns_inuse
T_TestInuse(t) ==
    /\ pc[t] = "test_inuse"
    /\ Goto(t, IF conn_local[t] \in _conns_inuse THEN "remove_inuse"
                                                ELSE "test_available")
    /\ UNCHANGED <<_conns_created, _conns_available, _conns_inuse, sock,
                   conn_pid, next_obj, conn_local, num_try_local,
                   created_read, held>>
    /\ ThreadFrame

\* remove: self._conns_inuse.remove(conn), or KeyError
T_RemoveInuse(t) ==
    /\ pc[t] = "remove_inuse"
    /\ IF conn_local[t] \in _conns_inuse
       THEN /\ _conns_inuse' = _conns_inuse \ {conn_local[t]}
            /\ Goto(t, "read_dec_inuse")
       ELSE /\ Goto(t, "idle")
            /\ UNCHANGED _conns_inuse
    /\ held' = [held EXCEPT ![t] = @ \ {conn_local[t]}]
    /\ UNCHANGED <<_conns_created, _conns_available, sock, conn_pid, next_obj,
                   conn_local, num_try_local, created_read>>
    /\ ThreadFrame

\* remove: the write of `self._conns_created -= 1`, first or second
T_WriteDec(t) ==
    /\ pc[t] \in {"write_dec_inuse", "write_dec_available"}
    /\ _conns_created' = created_read[t] - 1
    /\ Goto(t, IF pc[t] = "write_dec_inuse" THEN "test_available" ELSE "idle")
    /\ UNCHANGED <<_conns_available, _conns_inuse, sock, conn_pid, next_obj,
                   conn_local, num_try_local, created_read, held>>
    /\ ThreadFrame

\* remove: if conn in self._conns_available
T_TestAvailable(t) ==
    /\ pc[t] = "test_available"
    /\ Goto(t, IF conn_local[t] \in Range(_conns_available)
               THEN "remove_available" ELSE "idle")
    /\ UNCHANGED <<_conns_created, _conns_available, _conns_inuse, sock,
                   conn_pid, next_obj, conn_local, num_try_local,
                   created_read, held>>
    /\ ThreadFrame

\* remove: self._conns_available.remove(conn), or ValueError
T_RemoveAvailable(t) ==
    /\ pc[t] = "remove_available"
    /\ IF conn_local[t] \in Range(_conns_available)
       THEN /\ _conns_available' = list_remove(_conns_available, conn_local[t])
            /\ Goto(t, "read_dec_available")
       ELSE /\ Goto(t, "idle")
            /\ UNCHANGED _conns_available
    /\ UNCHANGED <<_conns_created, _conns_inuse, sock, conn_pid, next_obj,
                   conn_local, num_try_local, created_read, held>>
    /\ ThreadFrame

ThreadNext ==
    \E t \in Threads :
        \/ T_CallGet(t)
        \/ T_Pop(t)
        \/ T_Check(t)
        \/ T_Connect(t)
        \/ T_ReadCreated(t)
        \/ T_WriteInc(t)
        \/ T_Add(t)
        \/ T_CallRelease(t)
        \/ T_ReleaseRemove(t)
        \/ T_ReleaseAppend(t)
        \/ T_CallRemove(t)
        \/ T_TestInuse(t)
        \/ T_RemoveInuse(t)
        \/ T_WriteDec(t)
        \/ T_TestAvailable(t)
        \/ T_RemoveAvailable(t)

SpecThreads == Init /\ [][ThreadNext]_vars

\* --------------------------------------------------------------- client.py
\* A call of an Fdfs_client method is one action.  What the method does is
\* kept as a trace of events, in order: a Tracker_client constructed, a
\* tracker query, a Storage_client constructed, a request handed to a
\* Storage_client.  The arguments are given as what the method reads of them:
\* whether fdfs_check_file accepts the local file, whether the buffer and the
\* prefix are non-empty, what split_remote_fileid returns.

\* (ip_addr, port) of the storage servers: server i listens at address i, port i
Endpoints == {<<i, i>> : i \in 1..NumServers}
NoServ == <<0, 0>>
Groups == {"group1", "group2"}
\* a meta_dict: None or a dictionary
Metas == {"None", "meta"}
\* STORAGE_SET_METADATA_FLAG_OVERWRITE and STORAGE_SET_METADATA_FLAG_MERGE
Flags == {"O", "M"}

\* what split_remote_fileid returns: a false value, or (group_name, filename)
FileIds ==
    {[ok |-> FALSE, group |-> ""]} \cup {[ok |-> TRUE, group |-> g] : g \in Groups}

\* the arguments of a call; a method reads the fields it has parameters for
DefaultArgs ==
    [file_ok |-> TRUE, buf_ok |-> TRUE, prefix_ok |-> TRUE,
     fid |-> [ok |-> TRUE, group |-> ""], offset |-> 0, down_bytes |-> 0,
     filesize |-> 0, op_flag |-> "O", meta |-> "None"]

\* what the servers do in a call: how the tracker query ends, the storage
\* server it names when it ends well, how the storage request ends
Envs == [tres : {"ok", "ConnectionError", "ResponseError"}, tq : Endpoints,
         sres : {"ok", "DataError"}]

Ev(ev, name, arg, ep, params) ==
    [ev |-> ev, name |-> name, arg |-> arg, ep |-> ep, params |-> params]

\* no status was returned to the call; the error raised carries no status
NoStatus == -1

\* a call in progress: outcome "" while it runs, the trace so far, the
\* store_serv the tracker resolved, the Storage_client `store` (by its
\* endpoint), self.storages, the local `status` and the status code the
\* error raised carries in its message
Run0 ==
    [outcome |-> "", trace |-> <<>>, store_serv |-> NoServ, store |-> NoServ,
     storages |-> storages, status |-> NoStatus, code |-> NoStatus]

Raise(r, exc) == [r EXCEPT !.outcome = exc]
Emit(r, e) == [r EXCEPT !.trace = Append(@, e)]

\* tc = Tracker_client(self.tracker_pool)
Tracker_client(r) == Emit(r, Ev("Tracker_client", "tracker_pool", "", NoServ, <<>>))

\* tc.tracker_query_storage_*(...) and tc.tracker_list_*(...): the one place
\* where a call reaches the tracker pool.  It returns the store_serv the
\* tracker names, or raises
tracker_query(r, kind, group, env) ==
    IF env.tres # "ok"
    THEN Raise(Emit(r, Ev("query", kind, group, NoServ, env.tres)), env.tres)
    ELSE [Emit(r, Ev("query", kind, group, env.tq, "ok"))
             EXCEPT !.store_serv = env.tq]

\* Fdfs_client.get_storage
get_storage(r, store_serv) ==
    IF store_serv \in r.storages
    THEN [r EXCEPT !.store = store_serv]
    ELSE [Emit(r, Ev("Storage_client", "", "", store_serv, <<>>))
             EXCEPT !.store = store_serv,
                    !.storages = @ \cup {store_serv}]

\* store = Storage_client(store_serv.ip_addr, store_serv.port, self.timeout)
Storage_client(r, store_serv) ==
    [Emit(r, Ev("Storage_client", "", "", store_serv, <<>>))
        EXCEPT !.store = store_serv]

\* store.storage_*(tc, store_serv, ...): the request goes to the endpoint of
\* `store`; it returns or raises what the storage server answers
storage_request(r, name, params, env) ==
    LET r1 == Emit(r, Ev("request", name, "", r.store, params))
    IN  Raise(r1, env.sres)

\* client.py imports ConnectionPool, the exceptions, the protocol flag, the two
\* clients and the utils; it does not import os, so `os` is an unbound name
os_is_defined == FALSE

\* Fdfs_client.get_store_serv
get_store_serv(a, env, r0) ==
    IF ~a.fid.ok THEN Raise(r0, "DataError")
    ELSE LET r1 == tracker_query(Tracker_client(r0), "update", a.fid.group, env)
         IN  IF r1.outcome # "" THEN r1 ELSE Raise(r1, "ok")

\* the tail of the upload methods that take no remote file id
upload_new(a, env, r0, name) ==
    LET r1 == tracker_query(Tracker_client(r0), "store_without_group", "", env)
    IN  IF r1.outcome # "" THEN r1
        ELSE storage_request(get_storage(r1, r1.store_serv), name,
                             [meta_dict |-> a.meta], env)

\* Fdfs_client.upload_by_filename
upload_by_filename(a, env, r0) ==
    IF ~a.file_ok THEN Raise(r0, "DataError")
    ELSE upload_new(a, env, r0, "storage_upload_by_filename")

\* Fdfs_client.upload_by_file
upload_by_file(a, env, r0) ==
    IF ~a.file_ok THEN Raise(r0, "DataError")
    ELSE upload_new(a, env, r0, "storage_upload_by_file")

\* Fdfs_client.upload_by_buffer
upload_by_buffer(a, env, r0) ==
    IF ~a.buf_ok THEN Raise(r0, "DataError")
    ELSE upload_new(a, env, r0, "storage_upload_by_buffer")

\* Fdfs_client.upload_appender_by_filename
upload_appender_by_filename(a, env, r0) ==
    IF ~a.file_ok THEN Raise(r0, "DataError")
    ELSE upload_new(a, env, r0, "storage_upload_appender_by_filename")

\* Fdfs_client.upload_appender_by_file
upload_appender_by_file(a, env, r0) ==
    IF ~a.file_ok THEN Raise(r0, "DataError")
    ELSE upload_new(a, env, r0, "storage_upload_appender_by_file")

\* Fdfs_client.upload_appender_by_buffer
upload_appender_by_buffer(a, env, r0) ==
    IF ~a.buf_ok THEN Raise(r0, "DataError")
    ELSE upload_new(a, env, r0, "storage_upload_appender_by_buffer")

\* the tail of upload_slave_by_filename and upload_slave_by_file: the request
\* is given meta_dict=None
upload_slave(a, env, r0, name) ==
    IF ~a.file_ok THEN Raise(r0, "DataError")
    ELSE IF ~a.fid.ok THEN Raise(r0, "DataError")
    ELSE IF ~a.prefix_ok THEN Raise(r0, "DataError")
    ELSE LET r1 == tracker_query(Tracker_client(r0), "store_with_group",
                                 a.fid.group, env)
         IN  IF r1.outcome # "" THEN r1
             ELSE storage_request(get_storage(r1, r1.store_serv), name,
                                  [meta_dict |-> "None"], env)

\* Fdfs_client.upload_slave_by_filename
upload_slave_by_filename(a, env, r0) ==
    upload_slave(a, env, r0, "storage_upload_slave_by_filename")

\* Fdfs_client.upload_slave_by_file
upload_slave_by_file(a, env, r0) ==
    upload_slave(a, env, r0, "storage_upload_slave_by_file")

\* Fdfs_client.upload_slave_by_buffer
upload_slave_by_buffer(a, env, r0) ==
    IF ~a.buf_ok THEN Raise(r0, "DataError")
    ELSE IF ~a.fid.ok THEN Raise(r0, "DataError")
    ELSE LET r1 == tracker_query(Tracker_client(r0), "update", a.fid.group, env)
         IN  IF r1.outcome # "" THEN r1
             ELSE storage_request(get_storage(r1, r1.store_serv),
                                  "storage_upload_slave_by_buffer",
                                  [meta_dict |-> a.meta], env)

\* Fdfs_client.delete_file
delete_file(a, env, r0) ==
    IF ~a.fid.ok THEN Raise(r0, "DataError")
    ELSE LET r1 == tracker_query(Tracker_client(r0), "update", a.fid.group, env)
         IN  IF r1.outcome # "" THEN r1
             ELSE storage_request(get_storage(r1, r1.store_serv),
                                  "storage_delete_file", <<>>, env)

\* the body of download_to_file and download_to_buffer: file_offset and
\* download_bytes are assigned only `if not offset` and `if not down_bytes`;
\* reading an unassigned one raises UnboundLocalError
download(a, env, r0, name) ==
    IF ~a.fid.ok THEN Raise(r0, "DataError")
    ELSE LET r1 == tracker_query(Tracker_client(r0), "fetch", a.fid.group, env)
         IN  IF r1.outcome # "" THEN r1
             ELSE LET r2 == Storage_client(r1, r1.store_serv)
                  IN  IF a.offset # 0 \/ a.down_bytes # 0
                      THEN Raise(r2, "UnboundLocalError")
                      ELSE storage_request(r2, name,
                               [file_offset |-> a.offset,
                                download_bytes |-> a.down_bytes], env)

\* Fdfs_client.download_to_file
download_to_file(a, env, r0) == download(a, env, r0, "storage_download_to_file")

\* Fdfs_client.download_to_buffer
download_to_buffer(a, env, r0) == download(a, env, r0, "storage_download_to_buffer")

\* Fdfs_client.list_one_group
list_one_group(a, env, r0) ==
    LET r1 == tracker_query(Tracker_client(r0), "list_one_group", a.fid.group, env)
    IN  IF r1.outcome # "" THEN r1 ELSE Raise(r1, "ok")

\* Fdfs_client.list_servers
list_servers(a, env, r0) ==
    LET r1 == tracker_query(Tracker_client(r0), "list_servers", a.fid.group, env)
    IN  IF r1.outcome # "" THEN r1 ELSE Raise(r1, "ok")

\* Fdfs_client.list_all_groups
list_all_groups(a, env, r0) ==
    LET r1 == tracker_query(Tracker_client(r0), "list_all_groups", "", env)
    IN  IF r1.outcome # "" THEN r1 ELSE Raise(r1, "ok")

\* Fdfs_client.get_meta_data
get_meta_data(a, env, r0) ==
    IF ~a.fid.ok THEN Raise(r0, "DataError")
    ELSE LET r1 == tracker_query(Tracker_client(r0), "update", a.fid.group, env)
         IN  IF r1.outcome # "" THEN r1
             ELSE storage_request(Storage_client(r1, r1.store_serv),
                                  "storage_get_metadata", <<>>, env)

\* a parameter of a request for which the call passes no argument
NotPassed == "not passed"

\* Fdfs_client.set_meta_data; status: what storage_set_metadata returns.  The
\* request is given remote_filename and meta_dict, and no op_flag; the message
\* of the DataError for a nonzero status is built with os.strerror
set_meta_data(a, env, r0, status) ==
    IF ~a.fid.ok THEN Raise(r0, "DataError")
    ELSE LET r1 == tracker_query(Tracker_client(r0), "update", a.fid.group, env)
         IN  IF r1.outcome # "" THEN r1
             ELSE LET r2 == storage_request(Storage_client(r1, r1.store_serv),
                                            "storage_set_metadata",
                                            [meta_dict |-> a.meta,
                                             op_flag |-> NotPassed], env)
                      r3 == [r2 EXCEPT !.status = status]
                  IN  IF r2.outcome # "ok" THEN r2
                      ELSE IF status # 0
                      THEN IF os_is_defined
                           THEN [Raise(r3, "DataError") EXCEPT !.code = status]
                           ELSE Raise(r3, "NameError")
                      ELSE r3

\* the tail of the append methods
append(a, env, r0, name) ==
    IF ~a.fid.ok THEN Raise(r0, "DataError")
    ELSE LET r1 == tracker_query(Tracker_client(r0), "update", a.fid.group, env)
         IN  IF r1.outcome # "" THEN r1
             ELSE storage_request(Storage_client(r1, r1.store_serv), name,
                                  <<>>, env)

\* Fdfs_client.append_by_filename
append_by_filename(a, env, r0) ==
    IF ~a.file_ok THEN Raise(r0, "DataError")
    ELSE append(a, env, r0, "storage_append_by_filename")

\* Fdfs_client.append_by_file
append_by_file(a, env, r0) ==
    IF ~a.file_ok THEN Raise(r0, "DataError")
    ELSE append(a, env, r0, "storage_append_by_file")

\* Fdfs_client.append_by_buffer
append_by_buffer(a, env, r0) ==
    IF ~a.buf_ok THEN Raise(r0, "DataError")
    ELSE append(a, env, r0, "storage_append_by_buffer")

\* Fdfs_client.truncate_file
truncate_file(a, env, r0) ==
    IF ~a.fid.ok THEN Raise(r0, "DataError")
    ELSE LET r1 == tracker_query(Tracker_client(r0), "update", a.fid.group, env)
         IN  IF r1.outcome # "" THEN r1
             ELSE storage_request(Storage_client(r1, r1.store_serv),
                                  "storage_truncate_file",
                                  [trunc_filesize |-> a.filesize], env)

\* the tail of the modify methods, from split_remote_fileid on: file_offset is
\* offset `if not offset` and 0 otherwise
modify(a, env, r0, name) ==
    IF ~a.fid.ok THEN Raise(r0, "DataError")
    ELSE LET file_offset == IF a.offset = 0 THEN a.offset ELSE 0
             r1 == tracker_query(Tracker_client(r0), "update", a.fid.group, env)
         IN  IF r1.outcome # "" THEN r1
             ELSE storage_request(Storage_client(r1, r1.store_serv), name,
                                  [file_offset |-> file_offset,
                                   filesize |-> a.filesize], env)

\* Fdfs_client.modify_by_filename: filesize = os.stat(filename).st_size comes
\* after the file check and before split_remote_fileid
modify_by_filename(a, env, r0) ==
    IF ~a.file_ok THEN Raise(r0, "DataError")
    ELSE IF ~os_is_defined THEN Raise(r0, "NameError")
    ELSE modify(a, env, r0, "storage_modify_by_filename")

\* Fdfs_client.modify_by_file
modify_by_file(a, env, r0) ==
    IF ~a.file_ok THEN Raise(r0, "DataError")
    ELSE IF ~os_is_defined THEN Raise(r0, "NameError")
    ELSE modify(a, env, r0, "storage_modify_by_file")

\* Fdfs_client.modify_by_buffer: filesize = len(filebuffer)
modify_by_buffer(a, env, r0) ==
    IF ~a.buf_ok THEN Raise(r0, "DataError")
    ELSE modify(a, env, r0, "storage_modify_by_buffer")

\* no call is recorded: the caller has taken the result of the last one
NoClientCall ==
    [op |-> "", args |-> <<>>, outcome |-> "", trace |-> <<>>,
     status |-> NoStatus, code |-> NoStatus]

\* the variables after a call that ran as r
ClientCall(op, a, r) ==
    /\ call = NoClientCall
    /\ call' = [op |-> op, args |-> a, outcome |-> r.outcome, trace |-> r.trace,
                status |-> r.status, code |-> r.code]
    /\ storages' = r.storages
    /\ constructed' = constructed \cup
           {r.trace[i].ep : i \in {j \in 1..Len(r.trace) :
                                      r.trace[j].ev = "Storage_client"}}
    /\ UNCHANGED <<poolvars, threadvars, client, io>>

GetStoreServ ==
    \E fid \in FileIds, env \in Envs :
        LET a == [DefaultArgs EXCEPT !.fid = fid]
        IN  ClientCall("get_store_serv", a, get_store_serv(a, env, Run0))

UploadByFilename ==
    \E file_ok \in BOOLEAN, meta \in Metas, env \in Envs :
        LET a == [DefaultArgs EXCEPT !.file_ok = file_ok, !.meta = meta]
        IN  ClientCall("upload_by_filename", a, upload_by_filename(a, env, Run0))

UploadByFile ==
    \E file_ok \in BOOLEAN, meta \in Metas, env \in Envs :
        LET a == [DefaultArgs EXCEPT !.file_ok = file_ok, !.meta = meta]
        IN  ClientCall("upload_by_file", a, upload_by_file(a, env, Run0))

UploadByBuffer ==
    \E buf_ok \in BOOLEAN, meta \in Metas, env \in Envs :
        LET a == [DefaultArgs EXCEPT !.buf_ok = buf_ok, !.meta = meta]
        IN  ClientCall("upload_by_buffer", a, upload_by_buffer(a, env, Run0))

UploadSlaveByFilename ==
    \E file_ok \in BOOLEAN, fid \in FileIds, prefix_ok \in BOOLEAN, meta \in
       Metas, env \in Envs :
        LET a == [DefaultArgs EXCEPT !.file_ok = file_ok, !.fid = fid,
                     !.prefix_ok = prefix_ok, !.meta = meta]
        IN  ClientCall("upload_slave_by_filename", a, upload_slave_by_filename(a, env, Run0))

UploadSlaveByFile ==
    \E file_ok \in BOOLEAN, fid \in FileIds, prefix_ok \in BOOLEAN, meta \in
       Metas, env \in Envs :
        LET a == [DefaultArgs EXCEPT !.file_ok = file_ok, !.fid = fid,
                     !.prefix_ok = prefix_ok, !.meta = meta]
        IN  ClientCall("upload_slave_by_file", a, upload_slave_by_file(a, env, Run0))

UploadSlaveByBuffer ==
    \E buf_ok \in BOOLEAN, fid \in FileIds, meta \in Metas, env \in Envs :
        LET a == [DefaultArgs EXCEPT !.buf_ok = buf_ok, !.fid = fid, !.meta
                     = meta]
        IN  ClientCall("upload_slave_by_buffer", a, upload_slave_by_buffer(a, env, Run0))

UploadAppenderByFilename ==
    \E file_ok \in BOOLEAN, meta \in Metas, env \in Envs :
        LET a == [DefaultArgs EXCEPT !.file_ok = file_ok, !.meta = meta]
        IN  ClientCall("upload_appender_by_filename", a, upload_appender_by_filename(a, env, Run0))

UploadAppenderByFile ==
    \E file_ok \in BOOLEAN, meta \in Metas, env \in Envs :
        LET a == [DefaultArgs EXCEPT !.file_ok = file_ok, !.meta = meta]
        IN  ClientCall("upload_appender_by_file", a, upload_appender_by_file(a, env, Run0))

UploadAppenderByBuffer ==
    \E buf_ok \in BOOLEAN, meta \in Metas, env \in Envs :
        LET a == [DefaultArgs EXCEPT !.buf_ok = buf_ok, !.meta = meta]
        IN  ClientCall("upload_appender_by_buffer", a, upload_appender_by_buffer(a, env, Run0))

DeleteFile ==
    \E fid \in FileIds, env \in Envs :
        LET a == [DefaultArgs EXCEPT !.fid = fid]
        IN  ClientCall("delete_file", a, delete_file(a, env, Run0))

DownloadToFile ==
    \E fid \in FileIds, offset \in 0..MaxOffset, down_bytes \in 0..MaxBytes,
       env \in Envs :
        LET a == [DefaultArgs EXCEPT !.fid = fid, !.offset = offset,
                     !.down_bytes = down_bytes]
        IN  ClientCall("download_to_file", a, download_to_file(a, env, Run0))

DownloadToBuffer ==
    \E fid \in FileIds, offset \in 0..MaxOffset, down_bytes \in 0..MaxBytes,
       env \in Envs :
        LET a == [DefaultArgs EXCEPT !.fid = fid, !.offset = offset,
                     !.down_bytes = down_bytes]
        IN  ClientCall("download_to_buffer", a, download_to_buffer(a, env, Run0))

ListOneGroup ==
    \E group \in Groups, env \in Envs :
        LET a == [DefaultArgs EXCEPT !.fid = [ok |-> TRUE, group |-> group]]
        IN  ClientCall("list_one_group", a, list_one_group(a, env, Run0))

ListServers ==
    \E group \in Groups, env \in Envs :
        LET a == [DefaultArgs EXCEPT !.fid = [ok |-> TRUE, group |-> group]]
        IN  ClientCall("list_servers", a, list_servers(a, env, Run0))

ListAllGroups ==
    \E env \in Envs :
        LET a == DefaultArgs
        IN  ClientCall("list_all_groups", a, list_all_groups(a, env, Run0))

GetMetaData ==
    \E fid \in FileIds, env \in Envs :
        LET a == [DefaultArgs EXCEPT !.fid = fid]
        IN  ClientCall("get_meta_data", a, get_meta_data(a, env, Run0))

SetMetaData ==
    \E fid \in FileIds, meta \in Metas, op_flag \in Flags, env \in Envs,
       status \in 0..MaxStatus :
        LET a == [DefaultArgs EXCEPT !.fid = fid, !.meta = meta, !.op_flag =
                     op_flag]
        IN  ClientCall("set_meta_data", a, set_meta_data(a, env, Run0, status))

AppendByFilename ==
    \E file_ok \in BOOLEAN, fid \in FileIds, env \in Envs :
        LET a == [DefaultArgs EXCEPT !.file_ok = file_ok, !.fid = fid]
        IN  ClientCall("append_by_filename", a, append_by_filename(a, env, Run0))

AppendByFile ==
    \E file_ok \in BOOLEAN, fid \in FileIds, env \in Envs :
        LET a == [DefaultArgs EXCEPT !.file_ok = file_ok, !.fid = fid]
        IN  ClientCall("append_by_file", a, append_by_file(a, env, Run0))

AppendByBuffer ==
    \E buf_ok \in BOOLEAN, fid \in FileIds, env \in Envs :
        LET a == [DefaultArgs EXCEPT !.buf_ok = buf_ok, !.fid = fid]
        IN  ClientCall("append_by_buffer", a, append_by_buffer(a, env, Run0))

TruncateFile ==
    \E filesize \in 0..MaxBytes, fid \in FileIds, env \in Envs :
        LET a == [DefaultArgs EXCEPT !.filesize = filesize, !.fid = fid]
        IN  ClientCall("truncate_file", a, truncate_file(a, env, Run0))

ModifyByFilename ==
    \E file_ok \in BOOLEAN, fid \in FileIds, offset \in 0..MaxOffset,
       filesize \in 0..MaxBytes, env \in Envs :
        LET a == [DefaultArgs EXCEPT !.file_ok = file_ok, !.fid = fid,
                     !.offset = offset, !.filesize = filesize]
        IN  ClientCall("modify_by_filename", a, modify_by_filename(a, env, Run0))

ModifyByFile ==
    \E file_ok \in BOOLEAN, fid \in FileIds, offset \in 0..MaxOffset,
       filesize \in 0..MaxBytes, env \in Envs :
        LET a == [DefaultArgs EXCEPT !.file_ok = file_ok, !.fid = fid,
                     !.offset = offset, !.filesize = filesize]
        IN  ClientCall("modify_by_file", a, modify_by_file(a, env, Run0))

ModifyByBuffer ==
    \E buf_ok \in BOOLEAN, fid \in FileIds, offset \in 0..MaxOffset,
       filesize \in 0..MaxBytes, env \in Envs :
        LET a == [DefaultArgs EXCEPT !.buf_ok = buf_ok, !.fid = fid,
                     !.offset = offset, !.filesize = filesize]
        IN  ClientCall("modify_by_buffer", a, modify_by_buffer(a, env, Run0))

\* the caller takes the result; the client is ready for the next call
Returned ==
    /\ call # NoClientCall
    /\ call' = NoClientCall
    /\ UNCHANGED <<poolvars, threadvars, storages, constructed, client, io>>

ClientNext ==
    \/ Returned
    \/ GetStoreServ
    \/ UploadByFilename
    \/ UploadByFile
    \/ UploadByBuffer
    \/ UploadSlaveByFilename
    \/ UploadSlaveByFile
    \/ UploadSlaveByBuffer
    \/ UploadAppenderByFilename
    \/ UploadAppenderByFile
    \/ UploadAppenderByBuffer
    \/ DeleteFile
    \/ DownloadToFile
    \/ DownloadToBuffer
    \/ ListOneGroup
    \/ ListServers
    \/ ListAllGroups
    \/ GetMetaData
    \/ SetMetaData
    \/ AppendByFilename
    \/ AppendByFile
    \/ AppendByBuffer
    \/ TruncateFile
    \/ ModifyByFilename
    \/ ModifyByFile
    \/ ModifyByBuffer

SpecClient == Init /\ [][ClientNext]_vars

\* ------------------------------------------- the socket functions
\* One call of tcp_recv_response, tcp_send_data or Connection.connect.  The
\* response is kept as the positions, in the stream the peer sends, of the
\* bytes in it.  The peer sends peer_total bytes in pieces of any size and is
\* then done: it closes the connection (recv returns no bytes) or stays
\* silent (recv times out).

\* len(e.args) of a socket error: 1 for socket.timeout('timed out') and for an
\* error with a message only, 2 for an error with (errno, message)
ErrArgLens == {1, 2}

\* the type of what sock.recv returns: str under Python 2, bytes under Python 3
RecvTypes == {"str", "bytes"}

Min(a, b) == IF a <= b THEN a ELSE b

\* what conn.sock.recv(buffer_size) may give: n bytes, or a socket error
RecvResults(x) ==
    LET avail == x.peer_total - x.total_size
    IN  IF avail > 0
        THEN {[n |-> k, err |-> 0] : k \in 1..Min(x.buffer_size, avail)}
             \cup {[n |-> 0, err |-> a] : a \in ErrArgLens}
        ELSE IF x.peer_end = "close" THEN {[n |-> 0, err |-> 0]}
        ELSE {[n |-> 0, err |-> 1]}

\* raise ConnectionError("... (%s)" % e.args): the format has one %s, so with
\* len(e.args) = 1 the ConnectionError is raised and otherwise the formatting
\* raises TypeError
raise_formatted(x, args_len) ==
    [x EXCEPT !.pc = "raised", !.err = args_len,
              !.outcome = IF args_len = 1 THEN "ConnectionError"
                                          ELSE "TypeError"]

\* one turn of the loop of tcp_recv_response, which calls recv once (recvs
\* counts the calls modulo 2).  response starts as the str "", and
\* `response += resp` raises TypeError when resp is bytes
recv_turn(x0, res) ==
    LET x == [x0 EXCEPT !.recvs = (@ + 1) % 2]
    IN
    IF res.err # 0 THEN raise_formatted(x, res.err)
    ELSE IF x.recv_type = "bytes"
    THEN [x EXCEPT !.pc = "raised", !.outcome = "TypeError"]
    ELSE LET final == x.bytes_size - x.total_size <= x.buffer_size
             resp == [i \in 1..res.n |-> x.total_size + i]
         IN  [x EXCEPT !.response = @ \o resp,
                       !.total_size = @ + Len(resp),
                       !.pc = IF final THEN "returned" ELSE "recv",
                       !.outcome = IF final THEN "ok" ELSE ""]

\* tcp_send_data: conn.sock.sendall(bytes_stream) returns or raises
tcp_send_data(x, err) ==
    IF err # 0 THEN raise_formatted(x, err)
    ELSE [x EXCEPT !.pc = "returned", !.outcome = "ok"]

\* Connection.connect: nothing to do with a socket; else _connect() gives the
\* socket or raises, and _errormessage builds the message for one argument
\* and for more
connect(x, err) ==
    IF x.sock THEN [x EXCEPT !.pc = "returned", !.outcome = "ok"]
    ELSE IF err # 0
    THEN [x EXCEPT !.pc = "raised", !.err = err, !.outcome = "ConnectionError"]
    ELSE [x EXCEPT !.pc = "returned", !.outcome = "ok", !.sock = TRUE]

\* the calls: tcp_recv_response(conn, bytes_size, buffer_size) at its loop,
\* tcp_send_data(conn, bytes_stream), conn.connect()
IoCalls ==
    {[NoIo EXCEPT !.fn = "tcp_recv_response", !.pc = "recv",
                  !.bytes_size = b, !.buffer_size = f, !.recv_type = t,
                  !.peer_total = p, !.peer_end = e, !.sock = TRUE] :
        b \in 0..MaxSize, f \in 1..MaxBuffer, t \in RecvTypes,
        p \in 0..(MaxSize + 1), e \in {"close", "silent"}}
    \cup {[NoIo EXCEPT !.fn = "tcp_send_data", !.pc = "send", !.sock = TRUE]}
    \cup {[NoIo EXCEPT !.fn = "connect", !.pc = "connect", !.sock = k] :
              k \in BOOLEAN}

InitIo == PoolInit /\ ThreadInit /\ ClientInit /\ io \in IoCalls

IoFrame == UNCHANGED <<poolvars, threadvars, clientvars>>

TcpRecvResponse ==
    /\ io.pc = "recv"
    /\ \E res \in RecvResults(io) : io' = recv_turn(io, res)
    /\ IoFrame

TcpSendData ==
    /\ io.pc = "send"
    /\ \E err \in {0} \cup ErrArgLens : io' = tcp_send_data(io, err)
    /\ IoFrame

Connect ==
    /\ io.pc = "connect"
    /\ \E err \in {0} \cup ErrArgLens : io' = connect(io, err)
    /\ IoFrame

IoNext == TcpRecvResponse \/ TcpSendData \/ Connect

\* a call that is under way keeps running
SpecIo == InitIo /\ [][IoNext]_vars /\ WF_vars(IoNext)

\* ------------------------------------------------------- the pool's claims
InPool == _conns_inuse \cup Range(_conns_available)

\* the pool as make_conn finds it in the call that `last'` records: after
\* _check_pid, which empties a pool that another process filled
EntryCreated == IF last'.reinit THEN 0 ELSE _conns_created
EntryAvailable == IF last'.reinit THEN <<>> ELSE _conns_available
EntryInuse == IF last'.reinit THEN {} ELSE _conns_inuse

\* the step is a get_connection that came to make_conn below capacity
MakeConnBelowCapacity ==
    /\ last'.op = "get_connection"
    /\ pid' = getpid'
    /\ EntryAvailable = <<>>
    /\ EntryCreated < max_conn

\* C1: in every state between two pool calls, _conns_created equals the number
\* of connections in use plus the number of idle ones, and is at most max_conn.
C1_PoolInvariant ==
    /\ _conns_created = Cardinality(_conns_inuse) + Len(_conns_available)
    /\ _conns_created <= max_conn

\* a connect that failed three times left a pool that holds a connection in
\* use, after an earlier remove
C1_Witness ==
    /\ last.op = "get_connection"
    /\ last.outcome = "ConnectionError"
    /\ last.attempts = num_try
    /\ removed # {}
    /\ _conns_inuse # {}

\* C2: make_conn below capacity: two transport failures and then a success give
\* a connected Connection and _conns_created + 1; three failures in a row give
\* ConnectionError and leave the counter, the set and the list as they were.
C2_ConnectRetry ==
    [][MakeConnBelowCapacity =>
          /\ last'.fails = 2 =>
                /\ last'.outcome = "ok"
                /\ sock'[last'.conn]
                /\ _conns_created' = EntryCreated + 1
          /\ last'.fails >= 3 =>
                /\ last'.outcome = "ConnectionError"
                /\ _conns_created' = EntryCreated
                /\ _conns_inuse' = EntryInuse
                /\ _conns_available' = EntryAvailable]_poolvars

\* the third connect succeeded
C2_Witness ==
    /\ last.op = "get_connection"
    /\ last.fails = 2
    /\ last.attempts = 3
    /\ last.outcome = "ok"
    /\ sock[last.conn]

\* what C3 says of a get_connection step
GetConnectionContract ==
    /\ _conns_available # <<>> =>
          /\ last'.outcome = "ok"
          /\ last'.conn \in Range(_conns_available)
          /\ last'.attempts = 0
          /\ _conns_created' = _conns_created
    /\ (_conns_available = <<>> /\ _conns_created = max_conn) =>
          /\ last'.outcome = "ConnectionError"
          /\ last'.attempts = 0
          /\ UNCHANGED <<pid, max_conn, _conns_created, _conns_available,
                         _conns_inuse, sock, conn_pid, next_obj>>

\* C3 as stated: every get_connection with an idle connection returns one of
\* the idle connections without connecting, and every get_connection at
\* capacity with nothing idle fails without connecting or changing the pool.
C3_Original ==
    [][last'.op = "get_connection" => GetConnectionContract]_poolvars

\* C3, amended: the same, for a get_connection in the process whose pid the
\* pool records.
C3_GetConnection ==
    [][(last'.op = "get_connection" /\ pid = getpid) => GetConnectionContract]_poolvars

\* a get_connection was refused at capacity, with nothing idle
C3_Witness ==
    /\ last.op = "get_connection"
    /\ last.outcome = "ConnectionError"
    /\ last.attempts = 0
    /\ pid = getpid
    /\ _conns_available = <<>>
    /\ _conns_created = max_conn

\* the list holds no connection twice
NoDuplicates(s) == \A i, j \in 1..Len(s) : s[i] = s[j] => i = j

\* C4: no connection is both in use and idle, none is idle twice, and
\* get_connection never returns a connection that is in use.
C4_ExclusiveOwnership ==
    /\ [](_conns_inuse \cap Range(_conns_available) = {})
    /\ [](NoDuplicates(_conns_available))
    /\ [][(last'.op = "get_connection" /\ last'.outcome = "ok") =>
             last'.conn \notin _conns_inuse]_poolvars

\* get_connection handed out an idle connection while another was in use
C4_Witness ==
    /\ last.op = "get_connection"
    /\ last.outcome = "ok"
    /\ last.attempts = 0
    /\ last.conn \in _conns_inuse
    /\ Cardinality(_conns_inuse) >= 2

\* C5: remove of a pooled connection takes it out and decrements the counter by
\* one; a removed connection is never in the pool again and never returned by
\* get_connection; and a get_connection that follows a remove which left the
\* pool one below capacity with nothing idle attempts a connect.
C5_Remove ==
    /\ [][(last'.op = "remove" /\ last'.arg \in InPool) =>
             /\ last'.arg \notin InPool'
             /\ _conns_created' = _conns_created - 1]_poolvars
    /\ [](removed \cap InPool = {})
    /\ [][(last'.op = "get_connection" /\ last'.outcome = "ok") =>
             last'.conn \notin removed]_poolvars
    /\ [][(/\ last.op = "remove"
           /\ last.arg \in removed
           /\ _conns_available = <<>>
           /\ _conns_created = max_conn - 1
           /\ last'.op = "get_connection"
           /\ pid' = getpid') => last'.attempts >= 1]_poolvars

\* a replacement was opened in a pool that had been full: more connections
\* were made than max_conn allows at once, with no fork
C5_Witness ==
    /\ last.op = "get_connection"
    /\ last.outcome = "ok"
    /\ last.attempts >= 1
    /\ getpid = 0
    /\ removed # {}
    /\ _conns_created = max_conn
    /\ next_obj - 1 > max_conn

\* what C6 says of a release of a connection of this process that is in use
ReleaseMoves ==
    (last'.op = "release" /\ last'.arg \in _conns_inuse
        /\ conn_pid[last'.arg] = getpid) =>
        /\ last'.outcome = "ok"
        /\ _conns_inuse' = _conns_inuse \ {last'.arg}
        /\ _conns_available' = Append(_conns_available, last'.arg)
        /\ _conns_created' = _conns_created

\* the step adds nothing to the idle list: the list is as it was, or the empty
\* list of a re-initialised pool
AddsNothing == _conns_available' \in {_conns_available, <<>>}

\* C6 as stated: release moves an in-use connection of this process to the idle
\* list and keeps the counter; for a connection of another process it raises
\* nothing and adds nothing to the idle list.
C6_Original ==
    [][/\ ReleaseMoves
       /\ (last'.op = "release" /\ conn_pid[last'.arg] # getpid) =>
             /\ last'.outcome = "ok"
             /\ AddsNothing]_poolvars

\* C6, amended: for a connection of another process, release adds nothing to
\* the idle list and raises nothing of its own; the one error it can end in is
\* the ConnectionError of a close() that failed in _check_pid's destroy, which
\* leaves the pool's pid, counter, set and list as they were.
C6_Release ==
    [][/\ ReleaseMoves
       /\ (last'.op = "release" /\ conn_pid[last'.arg] # getpid) =>
             /\ AddsNothing
             /\ last'.outcome \in {"ok", "ConnectionError"}
             /\ pid = getpid => last'.outcome = "ok"
             /\ last'.outcome = "ConnectionError" =>
                   /\ pid # getpid
                   /\ \E c \in InPool : sock[c] /\ sock'[c]
                   /\ UNCHANGED <<pid, _conns_created, _conns_inuse,
                                  _conns_available>>]_poolvars

\* a connection made before the fork was released in the child, silently
C6_Witness ==
    /\ last.op = "release"
    /\ last.arg # Foreign
    /\ conn_pid[last.arg] # getpid
    /\ last.reinit
    /\ last.outcome = "ok"

\* C7: when destroy has returned, no connection in use or idle has a socket.
C7_Destroy ==
    (last.op = "destroy" /\ last.outcome = "ok") =>
        \A c \in InPool : ~sock[c]

\* destroy returned in a pool that holds connections in use and idle ones
C7_Witness ==
    /\ last.op = "destroy"
    /\ last.outcome = "ok"
    /\ _conns_inuse # {}
    /\ _conns_available # <<>>

\* C8: with threads interleaved step by step, _conns_created never exceeds
\* max_conn and, whenever no pool call is in progress, it equals the number of
\* connections in use plus the number of idle ones.
C8_ThreadSafe ==
    /\ _conns_created <= max_conn
    /\ (\A t \in Threads : pc[t] = "idle") =>
           _conns_created = Cardinality(_conns_inuse) + Len(_conns_available)

\* ----------------------------------------------------- the client's claims
\* the methods that work on a file
FileOps ==
    {"upload_by_filename", "upload_by_file", "upload_by_buffer",
     "upload_slave_by_filename", "upload_slave_by_file",
     "upload_slave_by_buffer", "upload_appender_by_filename",
     "upload_appender_by_file", "upload_appender_by_buffer", "delete_file",
     "download_to_file", "download_to_buffer", "get_meta_data",
     "set_meta_data", "append_by_filename", "append_by_file",
     "append_by_buffer", "truncate_file", "modify_by_filename",
     "modify_by_file", "modify_by_buffer"}

\* an argument of the call is invalid
Invalid(a) == ~a.file_ok \/ ~a.buf_ok \/ ~a.prefix_ok \/ ~a.fid.ok

\* the places of the events of one kind in the trace of the call
Places(ev) == {i \in 1..Len(call.trace) : call.trace[i].ev = ev}

\* C9: a call with an invalid local file, buffer, prefix or remote file id ends
\* in DataError with no Tracker_client constructed, no tracker query, no
\* Storage_client constructed and no storage request: nothing reached a pool.
C9_RejectedBeforeNetwork ==
    (call # NoClientCall /\ Invalid(call.args)) =>
        /\ call.outcome = "DataError"
        /\ call.trace = <<>>

\* what C10 says of the trace of a call
TwoPhase ==
    \E q \in Places("query") :
        /\ Places("query") = {q}
        /\ Places("Tracker_client") = {q - 1}
        /\ call.trace[q - 1].name = "tracker_pool"
        /\ Cardinality(Places("request")) <= 1
        /\ \A j \in Places("request") :
              /\ j > q
              /\ call.trace[j].ep = call.trace[q].ep
        /\ call.trace[q].params # "ok" =>
              /\ Places("request") = {}
              /\ call.outcome = call.trace[q].params

\* C10: every file operation given valid arguments constructs one
\* Tracker_client on the tracker pool and makes exactly one tracker query with
\* it; every storage request comes after the query and goes to the endpoint
\* the query returned; a failed query ends the call with no storage request.
C10_TwoPhase ==
    (call.op \in FileOps /\ ~Invalid(call.args)) => TwoPhase

\* the methods that change an existing file, and those that only read one
Mutators ==
    {"delete_file", "append_by_filename", "append_by_file", "append_by_buffer",
     "modify_by_filename", "modify_by_file", "modify_by_buffer",
     "truncate_file", "set_meta_data"}
Readers == {"download_to_file", "download_to_buffer", "get_meta_data"}

\* C11: every tracker query of a method that changes an existing file is a
\* query-for-update, and every tracker query of a method that only reads an
\* existing file is a query-for-fetch.
C11_QueryKind ==
    \A q \in Places("query") :
        /\ call.op \in Mutators => call.trace[q].name = "update"
        /\ call.op \in Readers => call.trace[q].name = "fetch"

\* C12: over the calls made on one client, no Storage_client is constructed
\* for an endpoint for which one was constructed before: a later call
\* resolved to that endpoint uses the instance the client holds.
C12_StorageClientCached ==
    [][\A i \in 1..Len(call'.trace) :
          call'.trace[i].ev = "Storage_client" =>
              call'.trace[i].ep \notin constructed]_vars

Downloads == {"download_to_file", "download_to_buffer"}

\* the tracker query of the call returned a storage server
Resolved == \E q \in Places("query") : call.trace[q].params = "ok"

\* C13: a download with a valid remote file id whose tracker query succeeds
\* hands the storage download request exactly the caller's offset and length,
\* and ends as that request ends.
C13_PartialDownload ==
    (call.op \in Downloads /\ call.args.fid.ok /\ Resolved) =>
        /\ \E j \in Places("request") :
              call.trace[j].params =
                  [file_offset |-> call.args.offset,
                   download_bytes |-> call.args.down_bytes]
        /\ call.outcome \in {"ok", "DataError"}

Modifies == {"modify_by_filename", "modify_by_file", "modify_by_buffer"}

\* C14: a modify call whose tracker query succeeds issues its storage modify
\* request with the file offset equal to the caller's offset argument.
C14_ModifyOffset ==
    (call.op \in Modifies /\ Resolved) =>
        /\ Places("request") # {}
        /\ \A j \in Places("request") :
              call.trace[j].params.file_offset = call.args.offset

\* C15: the storage set-metadata request of set_meta_data is given the
\* op_flag the caller gave.
C15_OpFlag ==
    call.op = "set_meta_data" =>
        \A j \in Places("request") :
            call.trace[j].params.op_flag = call.args.op_flag

Slaves == {"upload_slave_by_filename", "upload_slave_by_file",
           "upload_slave_by_buffer"}

\* C16: every tracker query of an upload_slave_* call is a query-for-store
\* constrained to the group parsed from the remote file id.
C16_SlavePlacement ==
    call.op \in Slaves =>
        \A q \in Places("query") :
            /\ call.trace[q].name = "store_with_group"
            /\ call.trace[q].arg = call.args.fid.group

\* C17: set_meta_data ends well only when storage_set_metadata returned
\* status 0; when it returned a nonzero status the call ends in an error that
\* carries that status.
C17_StatusMapping ==
    (call.op = "set_meta_data" /\ call.status # NoStatus) =>
        /\ call.outcome = "ok" => call.status = 0
        /\ call.status # 0 =>
              /\ call.outcome \notin {"", "ok"}
              /\ call.code = call.status

\* no connection of the pool exists
NothingOpened ==
    /\ _conns_created = 0
    /\ _conns_available = <<>>
    /\ _conns_inuse = {}
    /\ \A c \in Objs : ~sock[c]
    /\ next_obj = 1

\* C18: Fdfs_client with an empty tracker_server fails with ConfigError, no
\* pool is constructed and nothing is ever called on one; a client that was
\* constructed has one pool, with no connection created, idle or in use, and
\* that stays so over every pool call that is not a get_connection.
C18_ConfigError ==
    /\ client.tracker_server = <<>> =>
          /\ client.outcome = "ConfigError"
          /\ client.pools = 0
          /\ max_conn = 0
          /\ NothingOpened
    /\ client.outcome = "ok" =>
          /\ client.pools = 1
          /\ NothingOpened
    /\ [][/\ client.outcome # "ConfigError"
          /\ (NothingOpened /\ last'.op # "get_connection") => NothingOpened']_vars

\* a client that failed on its configuration: it has no pool
C18_Witness ==
    /\ client.tracker_server = <<>>
    /\ client.outcome = "ConfigError"
    /\ client.pools = 0

\* a get_connection or a release runs in a process that is not the pool's
CallAfterFork ==
    /\ last'.op \in {"get_connection", "release"}
    /\ pid # getpid

\* the step re-initialised the pool: every connection it held is closed and
\* out of the pool, the pool is the current process's, max_conn is kept, and
\* the counter counts only what the call itself then created
Reinitialised ==
    /\ last'.reinit
    /\ \A c \in InPool :
          /\ ~sock'[c]
          /\ c \notin _conns_inuse' \cup Range(_conns_available')
    /\ pid' = getpid
    /\ max_conn' = max_conn
    /\ _conns_available' = <<>>
    /\ _conns_created' = Cardinality(_conns_inuse')
    /\ _conns_inuse' \subseteq {last'.conn}
    /\ last'.op = "release" => _conns_created' = 0 /\ _conns_inuse' = {}

\* no connection of another process is returned by get_connection or newly
\* placed in the idle list
NoneOfEarlierProcess ==
    /\ (last'.op = "get_connection" /\ last'.outcome = "ok") =>
          conn_pid'[last'.conn] = getpid
    /\ \A c \in Range(_conns_available') \ Range(_conns_available) :
          conn_pid'[c] = getpid

\* C19 as stated: every get_connection or release in a process that is not
\* the pool's re-initialises the pool, and no step returns or makes idle a
\* connection created by an earlier process.
C19_Original ==
    [][/\ CallAfterFork => Reinitialised
       /\ NoneOfEarlierProcess]_poolvars

\* C19, amended: the call re-initialises the pool unless a close() fails in
\* destroy; then it ends in ConnectionError without re-initialising: the pool
\* keeps its pid, max_conn, counter, set and list, and the next call tries
\* again.
C19_ForkReinit ==
    [][/\ CallAfterFork =>
             \/ Reinitialised
             \/ /\ last'.outcome = "ConnectionError"
                /\ ~last'.reinit
                /\ \E c \in InPool : sock[c] /\ sock'[c]
                /\ UNCHANGED <<pid, max_conn, _conns_created, _conns_inuse,
                               _conns_available>>
       /\ NoneOfEarlierProcess]_poolvars

\* a call in the child re-initialised a pool that held an open connection
C19_Witness ==
    /\ last.reinit
    /\ pid = getpid
    /\ pid # 0
    /\ \E c \in 1..MaxObjs : conn_pid[c] # pid /\ ~sock[c] /\ c < next_obj

\* C20: the connection a get_connection returns has an open socket.
C20_ReturnedConnected ==
    [][(last'.op = "get_connection" /\ last'.outcome = "ok") =>
           sock'[last'.conn]]_poolvars

\* the connections the pool constructed that have an open socket
OpenSockets == {c \in 1..MaxObjs : sock[c]}

\* C21: the connections the pool opened that still have an open socket, in
\* use, idle or taken out with remove, are at most max_conn.
C21_OpenSocketsBounded == Cardinality(OpenSockets) <= max_conn

\* C22: every call of tcp_recv_response comes to an end: it returns or it
\* raises.
C22_RecvTerminates ==
    (io.fn = "tcp_recv_response") ~> (io.pc \in {"returned", "raised"})

\* C23: when tcp_recv_response returns, received_size is the length of the
\* response and is at most bytes_size, and it is bytes_size whenever the peer
\* sent at least bytes_size bytes.
C23_RecvExact ==
    (io.fn = "tcp_recv_response" /\ io.pc = "returned") =>
        /\ io.total_size = Len(io.response)
        /\ io.total_size <= io.bytes_size
        /\ io.peer_total >= io.bytes_size => io.total_size = io.bytes_size

\* C24: a socket error during tcp_send_data, tcp_recv_response or
\* Connection.connect ends the call in ConnectionError, and after a failed
\* connect the Connection has no socket.
C24_SocketErrorsMapped ==
    io.err # 0 =>
        /\ io.pc = "raised"
        /\ io.outcome = "ConnectionError"
        /\ io.fn = "connect" => ~io.sock

Uploads ==
    {"upload_by_filename", "upload_by_file", "upload_by_buffer",
     "upload_appender_by_filename", "upload_appender_by_file",
     "upload_appender_by_buffer"} \cup Slaves

\* C25: every storage request of an upload_by_*, upload_appender_* or
\* upload_slave_* call is given the meta_dict the caller passed.
C25_MetaPassed ==
    call.op \in Uploads =>
        \A j \in Places("request") :
            call.trace[j].params.meta_dict = call.args.meta

\* a release of a connection of this process that is not in use
ReleaseNotInUse ==
    /\ last'.op = "release"
    /\ conn_pid[last'.arg] = getpid
    /\ last'.arg \notin _conns_inuse

\* no connection is twice in the idle list
IdleOnce ==
    \A i, j \in 1..Len(_conns_available) :
        _conns_available[i] = _conns_available[j] => i = j

\* C26: release of a connection of the current process that is not in
\* _conns_inuse (released before, removed, or never handed out by this pool)
\* ends in an error and leaves _conns_created, _conns_inuse and
\* _conns_available as they were; no call puts a connection into
\* _conns_available a second time.
C26_ReleaseNotInUse ==
    [][/\ ReleaseNotInUse =>
             /\ last'.outcome = "KeyError"
             /\ _conns_created' = _conns_created
             /\ _conns_inuse' = _conns_inuse
             /\ _conns_available' = _conns_available
       /\ IdleOnce => IdleOnce']_poolvars

\* a connection that is already in the idle list was released again
C26_Witness ==
    /\ last.op = "release"
    /\ last.outcome = "KeyError"
    /\ conn_pid[last.arg] = getpid
    /\ last.arg \in Range(_conns_available)
    /\ last.arg \notin _conns_inuse

====
